---- MODULE Spec2Model ----
(***************************************************************************)
(* Model of package xxtea (src/xxtea.go): NewKey, the byte-layout helpers  *)
(* AsBELE / AsLEBE / AsLELE, and TeaKey.Encrypt / TeaKey.Decrypt.          *)
(*                                                                         *)
(* Byte slices are sequences of 0..255; Go's d[i] is d[i+1] here (At).     *)
(* TLC's integers are 32-bit signed, so a uint32 is kept as the pair       *)
(* <<hi, lo>> of its 16-bit halves (value hi * 65536 + lo) and every       *)
(* uint32 operator works on the halves, reducing modulo 2^32.  A panic is  *)
(* a result record with panicked = TRUE that carries the memory as it was  *)
(* when the panic was raised.                                              *)
(***************************************************************************)
EXTENDS Naturals, Sequences, FiniteSets

----------------------------------------------------------------------------
(* uint32 / byte arithmetic *)

\* 2^16: the radix of the two halves of a uint32
H16 == 65536

Byte == 0..255

RECURSIVE Pow2R(_)
Pow2R(n) == IF n = 0 THEN 1 ELSE 2 * Pow2R(n - 1)

Pow2T == [n \in 0..16 |-> Pow2R(n)]

\* 2^n, 0 <= n <= 16
Pow2(n) == Pow2T[n]

\* bitwise operators on naturals, bit by bit
RECURSIVE XorBits(_, _)
XorBits(a, b) ==
  IF a = 0 THEN b
  ELSE IF b = 0 THEN a
  ELSE 2 * XorBits(a \div 2, b \div 2) + ((a + b) % 2)

RECURSIVE OrBits(_, _)
OrBits(a, b) ==
  IF a = 0 THEN b
  ELSE IF b = 0 THEN a
  ELSE 2 * OrBits(a \div 2, b \div 2) + (IF a % 2 = 1 \/ b % 2 = 1 THEN 1 ELSE 0)

RECURSIVE AndBits(_, _)
AndBits(a, b) ==
  IF a = 0 \/ b = 0 THEN 0
  ELSE 2 * AndBits(a \div 2, b \div 2) + (IF a % 2 = 1 /\ b % 2 = 1 THEN 1 ELSE 0)

\* the same operators tabulated on 4-bit digits, and applied digit by digit
\* to naturals below 2^16
XorT == [a \in 0..15 |-> [b \in 0..15 |-> XorBits(a, b)]]
OrT == [a \in 0..15 |-> [b \in 0..15 |-> OrBits(a, b)]]
AndT == [a \in 0..15 |-> [b \in 0..15 |-> AndBits(a, b)]]

Digits(T, a, b) ==
  T[a % 16][b % 16]
  + 16 * T[(a \div 16) % 16][(b \div 16) % 16]
  + 256 * T[(a \div 256) % 16][(b \div 256) % 16]
  + 4096 * T[a \div 4096][b \div 4096]

XorN(a, b) == Digits(XorT, a, b)
OrN(a, b) == Digits(OrT, a, b)
AndN(a, b) == Digits(AndT, a, b)

\* uint32(x) for a natural x below 2^31
U32(x) == <<x \div H16, x % H16>>

Zero32 == <<0, 0>>

\* x ^ y, x | y, x & y on uint32
Xor(x, y) == <<XorN(x[1], y[1]), XorN(x[2], y[2])>>
Or(x, y) == <<OrN(x[1], y[1]), OrN(x[2], y[2])>>
And(x, y) == <<AndN(x[1], y[1]), AndN(x[2], y[2])>>

\* x << n on uint32, 0 <= n < 32: bits shifted out at the top are lost
Shl(x, n) ==
  IF n >= 16
    THEN <<(x[2] * Pow2(n - 16)) % H16, 0>>
    ELSE <<(x[1] * Pow2(n) + (x[2] * Pow2(n)) \div H16) % H16,
           (x[2] * Pow2(n)) % H16>>

\* x >> n on uint32, 0 <= n < 32: logical, zero fill
Shr(x, n) ==
  IF n >= 16
    THEN <<0, x[1] \div Pow2(n - 16)>>
    ELSE <<x[1] \div Pow2(n),
           x[2] \div Pow2(n) + (x[1] % Pow2(n)) * Pow2(16 - n)>>

\* x + y on uint32: wraps modulo 2^32
Add(x, y) ==
  <<(x[1] + y[1] + (x[2] + y[2]) \div H16) % H16, (x[2] + y[2]) % H16>>

\* x - y on uint32: wraps modulo 2^32
Sub(x, y) ==
  LET borrow == IF x[2] < y[2] THEN 1 ELSE 0
  IN  <<(x[1] + H16 - y[1] - borrow) % H16, (x[2] + H16 - y[2]) % H16>>

\* r * x on uint32 for a natural r below 2^15: wraps modulo 2^32
MulN(r, x) ==
  <<(r * x[1] + (r * x[2]) \div H16) % H16, (r * x[2]) % H16>>

\* byte(x): the low 8 bits of a uint32
ToByte(x) == x[2] % 256

\* d[i] of a Go slice
At(d, i) == d[i + 1]

\* uint32(b[n])<<24 | uint32(b[n+1])<<16 | uint32(b[n+2])<<8 | uint32(b[n+3])
FromBytes(b, n) ==
  Or(Or(Or(Shl(U32(At(b, n)), 24), Shl(U32(At(b, n + 1)), 16)),
        Shl(U32(At(b, n + 2)), 8)),
     U32(At(b, n + 3)))

\* byte(k>>24), byte(k>>16), byte(k>>8), byte(k)
ToBytes(k) ==
  <<ToByte(Shr(k, 24)), ToByte(Shr(k, 16)), ToByte(Shr(k, 8)), ToByte(k)>>

\* const delta uint32 = 0x9e3779b9
delta == <<40503, 31161>>

\* MX with the shifts of z exchanged: (z>>4 ^ y<<2) + (y>>3 ^ z<<5)
MXShifts(y, z, sum, kw) ==
  Xor(Add(Xor(Shr(z, 4), Shl(y, 2)), Xor(Shr(y, 3), Shl(z, 5))),
      Add(Xor(sum, y), Xor(kw, z)))

\* ((z>>5 ^ y<<2) + (y>>3 ^ z<<4)) ^ ((sum ^ y) + (kw ^ z))
MX(y, z, sum, kw) ==
  Xor(Add(Xor(Shr(z, 5), Shl(y, 2)), Xor(Shr(y, 3), Shl(z, 4))),
      Add(Xor(sum, y), Xor(kw, z)))

----------------------------------------------------------------------------
(* AsBELE, AsLEBE, AsLELE *)

\* chk4len with `l <= 4` for `l < 4`
chk4lenAbove4(l) ==
  IF l <= 4 \/ AndN(l, 3) # 0
    THEN [panicked |-> TRUE, r |-> 0]
    ELSE [panicked |-> FALSE, r |-> l - 1]

\* chk4len without `l&3 != 0`
chk4lenUnaligned(l) ==
  IF l < 4
    THEN [panicked |-> TRUE, r |-> 0]
    ELSE [panicked |-> FALSE, r |-> l - 1]

\* func chk4len(l int) int: panics unless l >= 4 and l&3 == 0, returns l - 1
chk4len(l) ==
  IF l < 4 \/ AndN(l, 3) # 0
    THEN [panicked |-> TRUE, r |-> 0]
    ELSE [panicked |-> FALSE, r |-> l - 1]

\* Go's index check: d[i] panics unless 0 <= i < len(d)
InRange(d, i) == 0 <= i /\ i < Len(d)

\* AsBELELoop with the right-hand sides in the order d[l], d[l-1], d[l-2],
\* d[l-3], d[i+3], d[i+2], d[i+1], d[i]
RECURSIVE AsBELELoopBytes(_)
AsBELELoopBytes(st) ==
  IF st.i < st.l
    THEN LET d == st.d
             i == st.i
             l == st.l
         IN  AsBELELoopBytes(
               [d |-> [d EXCEPT ![i + 1] = At(d, l),
                                ![i + 2] = At(d, l - 1),
                                ![i + 3] = At(d, l - 2),
                                ![i + 4] = At(d, l - 3),
                                ![l - 2] = At(d, i + 3),
                                ![l - 1] = At(d, i + 2),
                                ![l] = At(d, i + 1),
                                ![l + 1] = At(d, i)],
                i |-> i + 4, l |-> l - 4])
    ELSE [panicked |-> FALSE, d |-> st.d]

\* for i < l { d[i..i+3], d[l-3..l] = d[l-3..l], d[i..i+3]; l -= 4; i += 4 }
\* The right-hand side is read before the first store; stores go left to right.
RECURSIVE AsBELELoop(_)
AsBELELoop(st) ==
  IF st.i < st.l
    THEN IF ~(InRange(st.d, st.i) /\ InRange(st.d, st.i + 3)
              /\ InRange(st.d, st.l - 3) /\ InRange(st.d, st.l))
           THEN [panicked |-> TRUE, d |-> st.d]
           ELSE LET d == st.d
                    i == st.i
                    l == st.l
                IN  AsBELELoop(
                      [d |-> [d EXCEPT ![i + 1] = At(d, l - 3),
                                       ![i + 2] = At(d, l - 2),
                                       ![i + 3] = At(d, l - 1),
                                       ![i + 4] = At(d, l),
                                       ![l - 2] = At(d, i),
                                       ![l - 1] = At(d, i + 1),
                                       ![l] = At(d, i + 2),
                                       ![l + 1] = At(d, i + 3)],
                       i |-> i + 4, l |-> l - 4])
    ELSE [panicked |-> FALSE, d |-> st.d]

\* func AsBELE(d []byte) []byte
AsBELE(d) ==
  LET c == chk4len(Len(d))
  IN  IF c.panicked
        THEN [panicked |-> TRUE, d |-> d]
        ELSE AsBELELoop([d |-> d, i |-> 0, l |-> c.r])

\* AsLEBELoop that rotates: d[i..i+3] = d[i+1], d[i+2], d[i+3], d[i]
RECURSIVE AsLEBELoopRotates(_)
AsLEBELoopRotates(st) ==
  LET c == chk4len(Len(st.d))
  IN  IF c.panicked
        THEN [panicked |-> TRUE, d |-> st.d]
        ELSE IF st.i < c.r
          THEN LET d == st.d
                   i == st.i
               IN  AsLEBELoopRotates(
                     [d |-> [d EXCEPT ![i + 1] = At(d, i + 1),
                                      ![i + 2] = At(d, i + 2),
                                      ![i + 3] = At(d, i + 3),
                                      ![i + 4] = At(d, i)],
                      i |-> i + 4])
          ELSE [panicked |-> FALSE, d |-> st.d]

\* for i < chk4len(len(d)) { d[i..i+3] = d[i+3], d[i+2], d[i+1], d[i]; i += 4 }
RECURSIVE AsLEBELoop(_)
AsLEBELoop(st) ==
  LET c == chk4len(Len(st.d))
  IN  IF c.panicked
        THEN [panicked |-> TRUE, d |-> st.d]
        ELSE IF st.i < c.r
          THEN IF ~(InRange(st.d, st.i) /\ InRange(st.d, st.i + 3))
                 THEN [panicked |-> TRUE, d |-> st.d]
                 ELSE LET d == st.d
                          i == st.i
                      IN  AsLEBELoop(
                            [d |-> [d EXCEPT ![i + 1] = At(d, i + 3),
                                             ![i + 2] = At(d, i + 2),
                                             ![i + 3] = At(d, i + 1),
                                             ![i + 4] = At(d, i)],
                             i |-> i + 4])
          ELSE [panicked |-> FALSE, d |-> st.d]

\* AsLEBE with the body of AsBELE: groups reversed, bytes in a group kept
AsLEBEReversesGroups(d) == AsBELE(d)

\* func AsLEBE(d []byte) []byte
AsLEBE(d) == AsLEBELoop([d |-> d, i |-> 0])

\* for i < l { d[i], d[l] = d[l], d[i]; l--; i++ }
RECURSIVE AsLELELoop(_)
AsLELELoop(st) ==
  IF st.i < st.l
    THEN IF ~(InRange(st.d, st.i) /\ InRange(st.d, st.l))
           THEN [panicked |-> TRUE, d |-> st.d]
           ELSE LET d == st.d
                    i == st.i
                    l == st.l
                IN  AsLELELoop([d |-> [d EXCEPT ![i + 1] = At(d, l),
                                                ![l + 1] = At(d, i)],
                                i |-> i + 1, l |-> l - 1])
    ELSE [panicked |-> FALSE, d |-> st.d]

\* func AsLELE(d []byte) []byte
AsLELE(d) ==
  LET c == chk4len(Len(d))
  IN  IF c.panicked
        THEN [panicked |-> TRUE, d |-> d]
        ELSE AsLELELoop([d |-> d, i |-> 0, l |-> c.r])

----------------------------------------------------------------------------
(* NewKey *)

\* the value of a uint32 known to be below 2^31, as a natural (an index)
Val(w) == w[1] * H16 + w[2]

\* type TeaKey [4]uint32, zero value
ZeroKey == [i \in 0..3 |-> Zero32]

\* NewKeyLoop packing each word little-endian
RECURSIVE NewKeyLoopLittle(_, _, _, _)
NewKeyLoopLittle(key, k, c, n) ==
  IF n < 16
    THEN LET w == Or(Or(Or(Shl(U32(At(key, n + 3)), 24),
                           Shl(U32(At(key, n + 2)), 16)),
                        Shl(U32(At(key, n + 1)), 8)),
                     U32(At(key, n)))
         IN  NewKeyLoopLittle(key, [k EXCEPT ![n \div 4] = w], Or(c, w), n + 4)
    ELSE [k |-> k, c |-> c]

\* NewKeyLoop with `c = k[n>>2]` for `c |= k[n>>2]`
RECURSIVE NewKeyLoopLastWord(_, _, _, _)
NewKeyLoopLastWord(key, k, c, n) ==
  IF n < 16
    THEN LET w == FromBytes(key, n)
         IN  NewKeyLoopLastWord(key, [k EXCEPT ![n \div 4] = w], w, n + 4)
    ELSE [k |-> k, c |-> c]

\* for n := 0; n < 16; n += 4 { k[n>>2] = ...; c |= k[n>>2] }
RECURSIVE NewKeyLoop(_, _, _, _)
NewKeyLoop(key, k, c, n) ==
  IF n < 16
    THEN LET w == FromBytes(key, n)
         IN  NewKeyLoop(key, [k EXCEPT ![n \div 4] = w], Or(c, w), n + 4)
    ELSE [k |-> k, c |-> c]

\* func NewKey(key []byte) (k TeaKey): panics on a length other than 16 and
\* on an all-zero key; key is only read
NewKey(key) ==
  IF Len(key) # 16
    THEN [panicked |-> TRUE, k |-> ZeroKey, key |-> key]
    ELSE LET r == NewKeyLoop(key, ZeroKey, Zero32, 0)
         IN  IF r.c = Zero32
               THEN [panicked |-> TRUE, k |-> r.k, key |-> key]
               ELSE [panicked |-> FALSE, k |-> r.k, key |-> key]

----------------------------------------------------------------------------
(* TeaKey.Encrypt / TeaKey.Decrypt *)

\* var v [52]uint32
ZeroV == [i \in 0..51 |-> Zero32]

\* The loops below carry their variables in a record, one record per pass.

\* for n = 0; n < z; n += 4 { v[n>>2] = <four bytes of in, big-endian> }
RECURSIVE LoadLoop(_, _, _)
LoadLoop(st, in, z) ==
  IF st.n < z
    THEN LoadLoop([v |-> [st.v EXCEPT ![st.n \div 4] = FromBytes(in, st.n)],
                   n |-> st.n + 4], in, z)
    ELSE st.v

\* for n = 0; n < uint32(len(out)); n += 4 { out[n..n+3] = <bytes of v[n>>2]> }
RECURSIVE StoreLoop(_, _, _)
StoreLoop(st, v, lo) ==
  IF st.n < lo
    THEN LET b == ToBytes(v[st.n \div 4])
         IN  StoreLoop([out |-> [st.out EXCEPT ![st.n + 1] = b[1],
                                               ![st.n + 2] = b[2],
                                               ![st.n + 3] = b[3],
                                               ![st.n + 4] = b[4]],
                        n |-> st.n + 4], v, lo)
    ELSE st.out

\* e := (sum >> 2) & 3
RoundE(sum) == Val(And(Shr(sum, 2), U32(3)))

\* p&3 as the index into the key, `^e` dropped
KeyIdxNoE(p, e) == AndN(p, 3)

\* p&3^e, the index into the key
KeyIdx(p, e) == XorN(AndN(p, 3), e)

\* for p = 0; p < n-1; p++ { y = v[p+1]; v[p] += MX; z = v[p] }
RECURSIVE EncInner(_, _, _, _, _)
EncInner(st, n, sum, e, k) ==
  IF st.p < n - 1
    THEN LET y == st.v[st.p + 1]
             vp == Add(st.v[st.p], MX(y, st.z, sum, k[KeyIdx(st.p, e)]))
         IN  EncInner([v |-> [st.v EXCEPT ![st.p] = vp], z |-> vp,
                       p |-> st.p + 1], n, sum, e, k)
    ELSE st

\* one pass of `for rounds > 0 { ... }` in Encrypt
EncRound(st, n, k) ==
  LET sum == Add(st.sum, delta)
      e == RoundE(sum)
      r == EncInner([v |-> st.v, z |-> st.z, p |-> 0], n, sum, e, k)
      y == r.v[0]
      vl == Add(r.v[n - 1], MX(y, r.z, sum, k[KeyIdx(r.p, e)]))
  IN  [v |-> [r.v EXCEPT ![n - 1] = vl], z |-> vl, sum |-> sum,
       rounds |-> st.rounds - 1]

RECURSIVE EncRounds(_, _, _)
EncRounds(st, n, k) ==
  IF st.rounds > 0 THEN EncRounds(EncRound(st, n, k), n, k) ELSE st

\* for p = n - 1; p > 0; p-- { z = v[p-1]; v[p] -= MX; y = v[p] }
RECURSIVE DecInner(_, _, _, _)
DecInner(st, sum, e, k) ==
  IF st.p > 0
    THEN LET z == st.v[st.p - 1]
             vp == Sub(st.v[st.p], MX(st.y, z, sum, k[KeyIdx(st.p, e)]))
         IN  DecInner([v |-> [st.v EXCEPT ![st.p] = vp], y |-> vp,
                       p |-> st.p - 1], sum, e, k)
    ELSE st

\* DecRound without `sum -= delta`
DecRoundSumKept(st, n, k) ==
  LET e == RoundE(st.sum)
      r == DecInner([v |-> st.v, y |-> st.y, p |-> n - 1], st.sum, e, k)
      z == r.v[n - 1]
      v0 == Sub(r.v[0], MX(r.y, z, st.sum, k[KeyIdx(r.p, e)]))
  IN  [v |-> [r.v EXCEPT ![0] = v0], y |-> v0, sum |-> st.sum,
       rounds |-> st.rounds - 1]

\* one pass of `for rounds > 0 { ... }` in Decrypt
DecRound(st, n, k) ==
  LET e == RoundE(st.sum)
      r == DecInner([v |-> st.v, y |-> st.y, p |-> n - 1], st.sum, e, k)
      z == r.v[n - 1]
      v0 == Sub(r.v[0], MX(r.y, z, st.sum, k[KeyIdx(r.p, e)]))
  IN  [v |-> [r.v EXCEPT ![0] = v0], y |-> v0, sum |-> Sub(st.sum, delta),
       rounds |-> st.rounds - 1]

RECURSIVE DecRounds(_, _, _)
DecRounds(st, n, k) ==
  IF st.rounds > 0 THEN DecRounds(DecRound(st, n, k), n, k) ELSE st

----------------------------------------------------------------------------
(* Byte slices in the caller's memory *)

\* A []byte of length over * 2^32 + Len(data) whose first Len(data) bytes are
\* data.  Slices of 4 GiB and more (over > 0, possible where int is 64 bits
\* wide) keep only that prefix: no call below indexes beyond it.
Mk(data) == [over |-> 0, data |-> data]

\* uint32(len(s)): the conversion keeps the low 32 bits of the length, so the
\* over * 2^32 part is dropped; Len(data) is below 2^32
U32Len(s) == Len(s.data)

\* z < 12 || z > 208 || z&3 != 0 || z != uint32(len(out))
BadLen(z, lo) == z < 12 \/ z > 208 \/ AndN(z, 3) # 0 \/ z # lo

\* Encrypt that zeroes out before it reads in
EncryptClearsOut(k, mem, i, o) ==
  LET z == U32Len(mem[i])
      lo == U32Len(mem[o])
  IN  IF BadLen(z, lo)
        THEN [panicked |-> TRUE, mem |-> mem]
        ELSE LET m0 == [mem EXCEPT ![o].data = [j \in 1..lo |-> 0]]
                 v == LoadLoop([v |-> ZeroV, n |-> 0], m0[i].data, z)
                 n == z \div 4
                 st == EncRounds([v |-> v, z |-> v[n - 1], sum |-> Zero32,
                                  rounds |-> 6 + 52 \div n], n, k)
                 out == StoreLoop([out |-> m0[o].data, n |-> 0], st.v, lo)
             IN  [panicked |-> FALSE, mem |-> [m0 EXCEPT ![o].data = out]]

\* func (k TeaKey) Encrypt(in, out []byte) []byte, on the slices mem[i], mem[o]
Encrypt(k, mem, i, o) ==
  LET z == U32Len(mem[i])
      lo == U32Len(mem[o])
  IN  IF BadLen(z, lo)
        THEN [panicked |-> TRUE, mem |-> mem]
        ELSE LET v == LoadLoop([v |-> ZeroV, n |-> 0], mem[i].data, z)
                 n == z \div 4
                 st == EncRounds([v |-> v, z |-> v[n - 1], sum |-> Zero32,
                                  rounds |-> 6 + 52 \div n], n, k)
                 out == StoreLoop([out |-> mem[o].data, n |-> 0], st.v, lo)
             IN  [panicked |-> FALSE, mem |-> [mem EXCEPT ![o].data = out]]

\* func (k TeaKey) Decrypt(in, out []byte) []byte, on the slices mem[i], mem[o]
Decrypt(k, mem, i, o) ==
  LET y == U32Len(mem[i])
      lo == U32Len(mem[o])
  IN  IF BadLen(y, lo)
        THEN [panicked |-> TRUE, mem |-> mem]
        ELSE LET v == LoadLoop([v |-> ZeroV, n |-> 0], mem[i].data, y)
                 n == y \div 4
                 rounds == 6 + 52 \div n
                 st == DecRounds([v |-> v, y |-> v[0],
                                  sum |-> MulN(rounds, delta),
                                  rounds |-> rounds], n, k)
                 out == StoreLoop([out |-> mem[o].data, n |-> 0], st.v, lo)
             IN  [panicked |-> FALSE, mem |-> [mem EXCEPT ![o].data = out]]

----------------------------------------------------------------------------
(* Inputs *)

\* keyBEBE = "0123456789ABCDEF" (xxtea_test.go), as bytes
keyBEBE ==
  <<48, 49, 50, 51, 52, 53, 54, 55, 56, 57, 65, 66, 67, 68, 69, 70>>

\* keyBELE = "CDEF89AB45670123"
keyBELE ==
  <<67, 68, 69, 70, 56, 57, 65, 66, 52, 53, 54, 55, 48, 49, 50, 51>>

\* keyLEBE = "32107654BA98FEDC"
keyLEBE ==
  <<51, 50, 49, 48, 55, 54, 53, 52, 66, 65, 57, 56, 70, 69, 68, 67>>

\* keyLELE = "FEDCBA9876543210"
keyLELE ==
  <<70, 69, 68, 67, 66, 65, 57, 56, 55, 54, 53, 52, 51, 50, 49, 48>>

\* plainM := []byte("Some message to encrypt here") (README, usage example)
plainM ==
  <<83, 111, 109, 101, 32, 109, 101, 115, 115, 97, 103, 101, 32, 116, 111,
    32, 101, 110, 99, 114, 121, 112, 116, 32, 104, 101, 114, 101>>

\* the ciphertext the README prints for plainM under keyBEBE
readmeEnc ==
  <<172, 204, 202, 138, 54, 189, 117, 227, 226, 233, 90, 26, 154, 253, 111,
    115, 9, 128, 128, 113, 158, 124, 253, 243, 5, 197, 126, 154>>

\* msgMax (xxtea_test.go), 208 bytes
msgMax ==
  <<103, 121, 103, 101, 100, 121, 114, 116, 101, 115, 116, 121, 99, 115,
    101, 100, 102, 100, 115, 102, 115, 100, 102, 100, 102, 115, 102, 115,
    108, 107, 100, 102, 115, 100, 102, 108, 107, 106, 100, 102, 106, 108,
    106, 115, 100, 102, 102, 115, 100, 102, 115, 100, 102, 115, 100, 102,
    115, 106, 108, 106, 100, 102, 108, 10, 103, 121, 103, 101, 100, 121,
    114, 116, 101, 115, 116, 121, 99, 115, 101, 100, 102, 100, 115, 102,
    115, 100, 102, 100, 102, 115, 102, 115, 108, 107, 100, 102, 115, 100,
    102, 108, 107, 106, 100, 102, 106, 108, 106, 115, 100, 102, 102, 115,
    100, 102, 115, 100, 102, 115, 100, 102, 115, 106, 108, 106, 100, 102,
    108, 10, 103, 121, 103, 101, 100, 121, 114, 116, 101, 115, 116, 121,
    99, 115, 101, 100, 102, 100, 115, 102, 115, 100, 102, 100, 102, 115,
    102, 115, 108, 107, 100, 102, 115, 100, 102, 108, 107, 106, 100, 102,
    106, 108, 106, 115, 100, 102, 102, 115, 100, 102, 115, 100, 102, 115,
    100, 102, 115, 106, 108, 106, 100, 102, 108, 10, 71, 72, 84, 82, 69,
    70, 68, 82, 84, 82, 89, 87, 69, 82, 71, 10>>

\* the longest key-bytes buffer filled with a pattern
MaxDLen == 17

\* how many API calls one caller makes
MaxCalls == 2

\* make([]byte, n)
Zeros(n) == [j \in 1..n |-> 0]

\* n bytes of pattern f: pairwise different for n <= 85
Fill(f, n) == [j \in 1..n |-> (37 * f + (2 * f - 1) * (j - 1)) % 256]

\* sixteen zero bytes but for byte b at index j
OneByte(j, b) == [Zeros(16) EXCEPT ![j + 1] = b]

\* a second key, all bytes above 127
keyHigh == [j \in 1..16 |-> 256 - j]

\* buffers handed to AsBELE, AsLEBE, AsLELE and NewKey
DInputs ==
  {Fill(f, n) : f \in {1, 2}, n \in 0..MaxDLen}
    \cup {keyBEBE, keyBELE, keyLEBE, keyLELE, keyHigh}
    \cup {Zeros(15), Zeros(16), Zeros(17)}
    \cup {OneByte(j, b) : j \in 0..15, b \in {1, 128}}

\* blocks handed to Encrypt and Decrypt with an out buffer of the same length
Messages ==
  {Fill(1, n) : n \in {0, 4, 8, 9, 12, 13, 16, 20, 212}}
    \cup {Fill(2, 12), plainM, msgMax}

\* what one caller starts with: a key (from keyBytes) and the slices msg, buf
Setup(kb, msg, buf) == [kb |-> kb, msg |-> msg, buf |-> buf]

Big(data) == [over |-> 1, data |-> data]

CipherSetups ==
  {Setup(keyBEBE, Mk(m), Mk(Zeros(Len(m)))) : m \in Messages}
    \cup {Setup(keyHigh, Mk(Fill(1, 12)), Mk(Zeros(12))),
          Setup(OneByte(15, 1), Mk(Fill(2, 12)), Mk(Zeros(12)))}
    \cup {Setup(keyBEBE, Mk(Zeros(16)), Mk(Zeros(32))),
          Setup(keyBEBE, Mk(Zeros(16)), Mk(Zeros(20))),
          Setup(keyBEBE, Mk(Fill(1, 12)), Mk(Zeros(8)))}
    \cup {Setup(keyBEBE, Big(Fill(1, 12)), Mk(Zeros(12))),
          Setup(keyBEBE, Mk(Fill(1, 12)), Big(Zeros(12))),
          Setup(keyBEBE, Big(Fill(1, 12)), Big(Zeros(12)))}

----------------------------------------------------------------------------
(* The caller: its memory, its key, and the calls it has made *)

VARIABLES
  mem,     \* the caller's slices by name: "d", or "msg" and "buf"
  key,     \* the caller's TeaKey variable
  hasKey,  \* key was assigned from a NewKey that returned
  calls,   \* the calls made so far, each with the memory before and after
  frame    \* the local variables of a call that is running, statement by
           \* statement, or NoFrame

vars == <<mem, key, hasKey, calls, frame>>

\* no call is running: the calls of Spec are made in one step each
NoFrame == [pc |-> "none"]

\* Either a caller holding key bytes d and no key yet, or a caller that has
\* built its key with NewKey and holds a message and an out buffer.
Init ==
  /\ calls = <<>>
  /\ frame = NoFrame
  /\ \/ /\ \E d \in DInputs : mem = [b \in {"d"} |-> Mk(d)]
        /\ key = ZeroKey
        /\ hasKey = FALSE
     \/ \E s \in CipherSetups :
          /\ mem = [b \in {"msg", "buf"} |-> IF b = "msg" THEN s.msg ELSE s.buf]
          /\ key = NewKey(s.kb).k
          /\ hasKey = TRUE

\* One call: its receiver key, its slice arguments a and b (a alone for the
\* one-argument functions), the memory before and after, whether it panicked,
\* and for NewKey the key it built.
Call(op, a, b, r, post, ret) ==
  [op |-> op, a |-> a, b |-> b, panicked |-> r.panicked, pre |-> mem,
   post |-> post, key |-> key, ret |-> ret]

\* key := NewKey(d)
CallNewKey ==
  /\ Len(calls) < MaxCalls
  /\ "d" \in DOMAIN mem
  /\ LET r == NewKey(mem["d"].data)
         post == [mem EXCEPT !["d"].data = r.key]
     IN  /\ key' = IF r.panicked THEN key ELSE r.k
         /\ hasKey' = (hasKey \/ ~r.panicked)
         /\ mem' = post
         /\ calls' = Append(calls, Call("NewKey", "d", "d", r, post, r.k))
         /\ UNCHANGED frame

Adapter(op, r) ==
  LET post == [mem EXCEPT !["d"].data = r.d]
  IN  /\ mem' = post
      /\ calls' = Append(calls, Call(op, "d", "d", r, post, ZeroKey))
      /\ UNCHANGED <<key, hasKey, frame>>

\* AsBELE(d)
CallAsBELE ==
  /\ Len(calls) < MaxCalls
  /\ "d" \in DOMAIN mem
  /\ Adapter("AsBELE", AsBELE(mem["d"].data))

\* AsLEBE(d)
CallAsLEBE ==
  /\ Len(calls) < MaxCalls
  /\ "d" \in DOMAIN mem
  /\ Adapter("AsLEBE", AsLEBE(mem["d"].data))

\* AsLELE(d)
CallAsLELE ==
  /\ Len(calls) < MaxCalls
  /\ "d" \in DOMAIN mem
  /\ Adapter("AsLELE", AsLELE(mem["d"].data))

\* Cipher with the receiver shared with the caller and its first word used as
\* scratch
CipherScratchesKey(op, i, o, r) ==
  /\ mem' = r.mem
  /\ calls' = Append(calls, Call(op, i, o, r, r.mem, ZeroKey))
  /\ key' = [key EXCEPT ![0] = Zero32]
  /\ UNCHANGED <<hasKey, frame>>

Cipher(op, i, o, r) ==
  /\ mem' = r.mem
  /\ calls' = Append(calls, Call(op, i, o, r, r.mem, ZeroKey))
  /\ UNCHANGED <<key, hasKey, frame>>

\* key.Encrypt(in, out), in and out any of the caller's two slices
CallEncrypt ==
  /\ Len(calls) < MaxCalls
  /\ hasKey
  /\ \E i \in {"msg", "buf"}, o \in {"msg", "buf"} :
       /\ {i, o} \subseteq DOMAIN mem
       /\ Cipher("Encrypt", i, o, Encrypt(key, mem, i, o))

\* key.Decrypt(in, out), in and out any of the caller's two slices
CallDecrypt ==
  /\ Len(calls) < MaxCalls
  /\ hasKey
  /\ \E i \in {"msg", "buf"}, o \in {"msg", "buf"} :
       /\ {i, o} \subseteq DOMAIN mem
       /\ Cipher("Decrypt", i, o, Decrypt(key, mem, i, o))

Next ==
  \/ CallNewKey
  \/ CallAsBELE
  \/ CallAsLEBE
  \/ CallAsLELE
  \/ CallEncrypt
  \/ CallDecrypt

Spec == Init /\ [][Next]_vars

----------------------------------------------------------------------------
(* Vocabulary of the properties *)

\* len(s), compared with a number below 2^32
LenIs(s, n) == s.over = 0 /\ Len(s.data) = n
LenBelow(s, n) == s.over = 0 /\ Len(s.data) < n
LenAbove(s, n) == s.over > 0 \/ Len(s.data) > n
LenMultipleOf4(s) == Len(s.data) % 4 = 0
SameLen(s, t) == s.over = t.over /\ Len(s.data) = Len(t.data)

\* 12 <= len(s) <= 208 and len(s) mod 4 = 0
ValidBlock(s) ==
  /\ ~LenBelow(s, 12)
  /\ ~LenAbove(s, 208)
  /\ LenMultipleOf4(s)

CipherOps == {"Encrypt", "Decrypt"}
AdapterOps == {"AsBELE", "AsLEBE", "AsLELE"}

\* the bytes a call was given and the bytes it left
InBytes(c) == c.pre[c.a].data
OutBytes(c) == c.post[c.b].data

----------------------------------------------------------------------------
(* C1: round trip *)

\* C1: an Encrypt of a block of valid length into an out slice of that length
\* returns, and a Decrypt that follows it, reading what Encrypt wrote and
\* writing a slice of that length, returns and leaves the block's bytes.
C1_RoundTrip ==
  \A j \in 1..Len(calls) :
    LET e == calls[j]
    IN  (/\ e.op = "Encrypt"
         /\ ValidBlock(e.pre[e.a])
         /\ SameLen(e.pre[e.a], e.pre[e.b]))
        => /\ ~e.panicked
           /\ \A n \in {j + 1} \cap (1..Len(calls)) :
                LET d == calls[n]
                IN  (/\ d.op = "Decrypt"
                     /\ d.a = e.b
                     /\ SameLen(d.pre[d.a], d.pre[d.b]))
                    => /\ ~d.panicked
                       /\ OutBytes(d) = InBytes(e)

\* a 208-byte block encrypted into one slice and decrypted into another
C1_Witness ==
  /\ Len(calls) = 2
  /\ calls[1].op = "Encrypt" /\ calls[1].a = "msg" /\ calls[1].b = "buf"
  /\ calls[2].op = "Decrypt" /\ calls[2].a = "buf" /\ calls[2].b = "msg"
  /\ LenIs(calls[1].pre["msg"], 208)
  /\ ~calls[2].panicked
  /\ calls[1].post["buf"].data # calls[1].pre["msg"].data

----------------------------------------------------------------------------
(* C2: length validation of Encrypt and Decrypt *)

\* C2: Encrypt and Decrypt panic exactly when len(in) < 12, or len(in) > 208,
\* or len(in) is not a multiple of 4, or len(in) # len(out).
C2_LengthValidation ==
  \A j \in 1..Len(calls) :
    LET c == calls[j]
    IN  c.op \in CipherOps
        => (c.panicked <=> (\/ ~ValidBlock(c.pre[c.a])
                            \/ ~SameLen(c.pre[c.a], c.pre[c.b])))

\* C2 on slices shorter than 4 GiB: there the panics are exactly the claimed
\* ones, for lengths 8, 9, 12, 208, 212 and for 16 against 32 or 20
C2_ShortSlices ==
  \A j \in 1..Len(calls) :
    LET c == calls[j]
    IN  (c.op \in CipherOps /\ c.pre[c.a].over = 0 /\ c.pre[c.b].over = 0)
        => (c.panicked <=> (\/ ~ValidBlock(c.pre[c.a])
                            \/ ~SameLen(c.pre[c.a], c.pre[c.b])))

----------------------------------------------------------------------------
(* C3: key validation *)

\* C3: NewKey panics exactly when its argument is not 16 bytes long or is 16
\* zero bytes.
C3_KeyValidation ==
  \A j \in 1..Len(calls) :
    LET c == calls[j]
    IN  c.op = "NewKey"
        => (c.panicked <=> (\/ Len(InBytes(c)) # 16
                            \/ \A n \in 1..16 : InBytes(c)[n] = 0))

\* NewKey returned for sixteen bytes of which only the first is not zero
C3_Witness ==
  \E j \in 1..Len(calls) :
    /\ calls[j].op = "NewKey"
    /\ InBytes(calls[j]) = OneByte(0, 128)
    /\ ~calls[j].panicked

----------------------------------------------------------------------------
(* C4: what the three layout functions do *)

\* the 4-byte groups of d in reverse order, each group as it was
GroupsReversed(d) ==
  [j \in 1..Len(d) |->
     d[(Len(d) \div 4 - 1 - ((j - 1) \div 4)) * 4 + ((j - 1) % 4) + 1]]

\* the groups of d in order, the four bytes of each reversed
BytesInGroupReversed(d) ==
  [j \in 1..Len(d) |-> d[((j - 1) \div 4) * 4 + (3 - ((j - 1) % 4)) + 1]]

\* d reversed
Reversed(d) == [j \in 1..Len(d) |-> d[Len(d) - j + 1]]

----------------------------------------------------------------------------
(* C5: the README's known answer *)

\* C5: under NewKey(keyBEBE), Encrypt of plainM writes readmeEnc, and Decrypt
\* of readmeEnc in place restores plainM.
C5_KnownAnswer ==
  \A j \in 1..Len(calls) :
    LET c == calls[j]
    IN  /\ (/\ c.op = "Encrypt"
            /\ c.key = NewKey(keyBEBE).k
            /\ InBytes(c) = plainM
            /\ SameLen(c.pre[c.a], c.pre[c.b]))
           => (~c.panicked /\ OutBytes(c) = readmeEnc)
        /\ (/\ c.op = "Decrypt"
            /\ c.key = NewKey(keyBEBE).k
            /\ InBytes(c) = readmeEnc
            /\ c.a = c.b)
           => (~c.panicked /\ OutBytes(c) = plainM)

\* the README's two calls: Encrypt(plainM, encMsg), Decrypt(encMsg, encMsg)
C5_Witness ==
  /\ Len(calls) = 2
  /\ calls[1].op = "Encrypt" /\ calls[1].a = "msg" /\ calls[1].b = "buf"
  /\ InBytes(calls[1]) = plainM
  /\ calls[2].op = "Decrypt" /\ calls[2].a = "buf" /\ calls[2].b = "buf"
  /\ InBytes(calls[2]) = readmeEnc
  /\ ~calls[2].panicked

----------------------------------------------------------------------------
(* C6: key packing *)

\* C6: the key NewKey returns for bytes b has word i equal to
\* b[4i]*2^24 + b[4i+1]*2^16 + b[4i+2]*2^8 + b[4i+3], that is the halves
\* b[4i]*2^8 + b[4i+1] and b[4i+2]*2^8 + b[4i+3]; no other accepted input
\* gives the same key.
C6_KeyPacking ==
  \A j \in 1..Len(calls) :
    LET c == calls[j]
        b == InBytes(c)
    IN  (c.op = "NewKey" /\ ~c.panicked)
        => /\ \A i \in 0..3 :
                c.ret[i] = <<At(b, 4 * i) * 256 + At(b, 4 * i + 1),
                             At(b, 4 * i + 2) * 256 + At(b, 4 * i + 3)>>
           /\ \A x \in DInputs :
                (~NewKey(x).panicked /\ NewKey(x).k = c.ret) => x = b

\* NewKey returned for keyHigh, whose words all have their top bit set
C6_Witness ==
  \E j \in 1..Len(calls) :
    /\ calls[j].op = "NewKey"
    /\ InBytes(calls[j]) = keyHigh
    /\ ~calls[j].panicked
    /\ calls[j].ret[0] = <<65534, 65020>>

----------------------------------------------------------------------------
(* C7: in place and into another slice *)

\* C7: a call on a block of valid length that writes another slice leaves
\* the block as it was, and the same call repeated on that block in place
\* leaves in the block the bytes the first call wrote to the other slice.
C7_InPlace ==
  /\ \A j \in 1..Len(calls) :
       LET c == calls[j]
       IN  (/\ c.op \in CipherOps
            /\ ~c.panicked
            /\ ValidBlock(c.pre[c.a])
            /\ c.a # c.b)
           => c.post[c.a] = c.pre[c.a]
  /\ \A j \in 1..(Len(calls) - 1) :
       LET c == calls[j]
           d == calls[j + 1]
       IN  (/\ c.op \in CipherOps
            /\ ~c.panicked
            /\ ValidBlock(c.pre[c.a])
            /\ c.a # c.b
            /\ d.op = c.op
            /\ d.key = c.key
            /\ d.a = c.a
            /\ d.b = c.a
            /\ InBytes(d) = InBytes(c))
           => (~d.panicked /\ OutBytes(d) = OutBytes(c))

\* Encrypt(msg, buf), then Encrypt(msg, msg) on a block of 16 bytes
C7_Witness ==
  /\ Len(calls) = 2
  /\ calls[1].op = "Encrypt" /\ calls[1].a = "msg" /\ calls[1].b = "buf"
  /\ calls[2].op = "Encrypt" /\ calls[2].a = "msg" /\ calls[2].b = "msg"
  /\ LenIs(calls[1].pre["msg"], 16)
  /\ ~calls[1].panicked
  /\ ~calls[2].panicked
  /\ OutBytes(calls[2]) # InBytes(calls[2])

----------------------------------------------------------------------------
(* C8: the layout functions are involutions *)

\* C8: two calls of the same layout function in a row that both return leave
\* the buffer as it was before the first.
C8_Involution ==
  \A j \in 1..(Len(calls) - 1) :
    LET c == calls[j]
        d == calls[j + 1]
    IN  (/\ c.op \in AdapterOps
         /\ d.op = c.op
         /\ ~c.panicked
         /\ ~d.panicked)
        => OutBytes(d) = InBytes(c)

\* AsLEBE twice on three groups of pairwise different bytes
C8_Witness ==
  /\ Len(calls) = 2
  /\ calls[1].op = "AsLEBE"
  /\ calls[2].op = "AsLEBE"
  /\ InBytes(calls[1]) = Fill(2, 12)
  /\ ~calls[2].panicked
  /\ OutBytes(calls[1]) # InBytes(calls[1])

----------------------------------------------------------------------------
(* C9: length validation of the layout functions *)

\* C9: AsBELE, AsLEBE and AsLELE panic exactly when the buffer is shorter
\* than 4 bytes or its length is not a multiple of 4.
C9_AdapterValidation ==
  \A j \in 1..Len(calls) :
    LET c == calls[j]
    IN  c.op \in AdapterOps
        => (c.panicked <=> (\/ Len(InBytes(c)) < 4
                            \/ Len(InBytes(c)) % 4 # 0))

\* AsLEBE returned for a buffer of 4 bytes
C9_Witness ==
  \E j \in 1..Len(calls) :
    /\ calls[j].op = "AsLEBE"
    /\ Len(InBytes(calls[j])) = 4
    /\ ~calls[j].panicked

----------------------------------------------------------------------------
(* C10: a call that panics has written nothing *)

\* C10: after a call that panicked every slice of the caller holds the bytes
\* it held before the call.
C10_NoMutationOnError ==
  \A j \in 1..Len(calls) :
    calls[j].panicked => calls[j].post = calls[j].pre

\* AsLEBE and then NewKey panicked on a buffer of 6 bytes
C10_Witness ==
  /\ Len(calls) = 2
  /\ calls[1].op = "AsLEBE" /\ calls[1].panicked
  /\ calls[2].op = "NewKey" /\ calls[2].panicked
  /\ Len(InBytes(calls[1])) = 6

----------------------------------------------------------------------------
(* C12: the layouts of the key "0123456789ABCDEF" *)

\* the adapter call op was given the bytes from and returned
Juggled(c, op, from) == c.op = op /\ InBytes(c) = from /\ ~c.panicked

----------------------------------------------------------------------------
(* C14: the key over a sequence of calls *)

\* k has a word that is not zero
NonZero(k) == \E w \in 0..3 : k[w] # Zero32

\* C14: a key that NewKey returned has a non-zero word; the caller's key is
\* after every Encrypt and Decrypt call, returned or panicked, the key the
\* call was made with, and so non-zero; and a later call of the same function
\* on slices holding the same bytes ends the same way and, when it returns,
\* leaves the same bytes in out.
C14_KeyInvariant ==
  /\ hasKey => NonZero(key)
  /\ \A j \in 1..Len(calls) :
       LET c == calls[j]
       IN  /\ (c.op = "NewKey" /\ ~c.panicked) => NonZero(c.ret)
           /\ c.op \in CipherOps
                => /\ c.key = key
                   /\ NonZero(c.key)
                   /\ \A n \in (j + 1)..Len(calls) :
                        LET d == calls[n]
                        IN  (/\ d.op = c.op
                             /\ d.pre[d.a] = c.pre[c.a]
                             /\ SameLen(d.pre[d.b], c.pre[c.b]))
                            => /\ d.panicked = c.panicked
                               /\ ~c.panicked => OutBytes(d) = OutBytes(c)

\* a call that panicked and then the same block encrypted in place and again
\* into the other slice, with the key as it was built
C14_Witness ==
  /\ Len(calls) >= 2
  /\ calls[1].op = "Encrypt" /\ calls[1].a = "msg" /\ calls[1].b = "msg"
  /\ calls[2].op = "Encrypt" /\ calls[2].a = "buf" /\ calls[2].b = "buf"
  /\ ~calls[1].panicked /\ calls[2].panicked
  /\ key = NewKey(keyBEBE).k

----------------------------------------------------------------------------
(* Test_BitFlip: Encrypt, one bit of the key flipped, Decrypt *)

\* key[w] ^= 1 << b
FlipBit(k, w, b) == [k EXCEPT ![w] = Xor(k[w], Shl(U32(1), b))]

\* msg := []byte(msgMax); enc, dec := make([]byte, len(msg)); key := NewKey(keyBEBE)
FlipInit ==
  /\ calls = <<>>
  /\ frame = NoFrame
  /\ mem = [b \in {"msg", "enc", "dec"} |->
              IF b = "msg" THEN Mk(msgMax) ELSE Mk(Zeros(Len(msgMax)))]
  /\ key = NewKey(keyBEBE).k
  /\ hasKey = TRUE

\* key.Encrypt(msg, enc)
FlipEncrypt ==
  /\ calls = <<>>
  /\ Cipher("Encrypt", "msg", "enc", Encrypt(key, mem, "msg", "enc"))

\* key[2] ^= 1 in the test; here any one of the key's 128 bits, once
FlipKey ==
  /\ Len(calls) = 1
  /\ key = calls[1].key
  /\ \E w \in 0..3, b \in 0..31 : key' = FlipBit(key, w, b)
  /\ UNCHANGED <<mem, hasKey, calls, frame>>

\* key.Decrypt(enc, dec)
FlipDecrypt ==
  /\ Len(calls) = 1
  /\ Cipher("Decrypt", "enc", "dec", Decrypt(key, mem, "enc", "dec"))

FlipNext ==
  \/ FlipEncrypt
  \/ FlipKey
  \/ FlipDecrypt

SpecFlip == FlipInit /\ [][FlipNext]_vars

\* the positions at which r and s hold the same byte (someBytesEqual finds one)
EqualAt(r, s) == {i \in 1..Len(s) : i <= Len(r) /\ r[i] = s[i]}

\* msg was encrypted with key k and enc decrypted with k2 into dec
FlipDone(k2) ==
  /\ Len(calls) = 2
  /\ calls[1].op = "Encrypt" /\ ~calls[1].panicked
  /\ calls[2].op = "Decrypt" /\ ~calls[2].panicked
  /\ calls[2].key = k2

----------------------------------------------------------------------------
(* C11: avalanche *)

\* C11: msgMax encrypted with NewKey(keyBEBE) and decrypted with that key
\* after any single one of its 128 bits was flipped shares no byte with
\* msgMax at any position.
C11_Avalanche ==
  \A w \in 0..3, b \in 0..31 :
    FlipDone(FlipBit(calls[1].key, w, b))
      => EqualAt(mem["dec"].data, msgMax) = {}

\* C11 as it holds: after the flip key[2] ^= 1 the decryption shares no byte
\* with msgMax at any position; after the flip of any one of the 128 bits it
\* has the length of msgMax and differs from it at all but at most 4 positions.
C11_AvalancheOfTest ==
  \A w \in 0..3, b \in 0..31 :
    FlipDone(FlipBit(calls[1].key, w, b))
      => /\ Len(mem["dec"].data) = Len(msgMax)
         /\ Cardinality(EqualAt(mem["dec"].data, msgMax)) <= 4
         /\ (w = 2 /\ b = 0) => EqualAt(mem["dec"].data, msgMax) = {}

\* the decryption after key[2] ^= 1, and it is not the zeroes dec held
C11_Witness ==
  /\ FlipDone(FlipBit(NewKey(keyBEBE).k, 2, 0))
  /\ mem["dec"].data # Zeros(Len(msgMax))
  /\ mem["enc"].data # msgMax

----------------------------------------------------------------------------
(* TeaKey.Encrypt statement by statement *)

\* one Encrypt call per behaviour: blocks of 3, 4, 7, 13 and 52 words, a
\* block too short, and out slices of the block's length or another
StepSetups ==
  {Setup(keyBEBE, Mk(m), Mk(Zeros(Len(m)))) :
     m \in {Fill(1, 8), Fill(1, 12), Fill(1, 16), plainM, Fill(2, 52), msgMax}}
    \cup {Setup(keyHigh, Mk(Fill(2, 12)), Mk(Zeros(16)))}

StepInit ==
  /\ calls = <<>>
  /\ frame = [pc |-> "idle"]
  /\ \E s \in StepSetups :
       /\ mem = [b \in {"msg", "buf"} |-> IF b = "msg" THEN s.msg ELSE s.buf]
       /\ key = NewKey(s.kb).k
       /\ hasKey = TRUE

\* the indices n>>2 of `for n = 0; n < z; n += 4 { v[n>>2] = ... }`
LoadIdx(z) == {m \div 4 : m \in {x \in 0..(z - 1) : x % 4 = 0}}

\* an index expression on var v [52]uint32, on k TeaKey: out of range panics
InV(j) == j \in 0..51
InK(j) == j \in 0..3

\* key.Encrypt(in, out) is called: the length check, the load loop,
\* n = z >> 2, rounds = 6 + 52/n, z = v[n-1].  The receiver k is a copy of
\* the caller's key.  vidx and kidx collect the indices used on v and k, upd
\* the indices of v written by the rounds, in the order of the writes.
StepEnter ==
  /\ frame.pc = "idle"
  /\ \E i \in {"msg", "buf"}, o \in {"msg", "buf"} :
       LET z == U32Len(mem[i])
           lo == U32Len(mem[o])
           v == LoadLoop([v |-> ZeroV, n |-> 0], mem[i].data, z)
           n == z \div 4
       IN  frame' = IF BadLen(z, lo)
                      THEN [pc |-> "panicked", i |-> i, o |-> o]
                      ELSE [pc |-> "rounds", i |-> i, o |-> o, k |-> key,
                            n |-> n, y |-> Zero32, z |-> v[n - 1], p |-> 0,
                            sum |-> Zero32, rounds |-> 6 + 52 \div n,
                            e |-> 0, v |-> v,
                            vidx |-> LoadIdx(z) \cup {n - 1}, kidx |-> {},
                            upd |-> <<>>]
  /\ UNCHANGED <<mem, key, hasKey, calls>>

\* for rounds > 0 { rounds--; sum += delta; e := (sum >> 2) & 3; p = 0
StepRound ==
  /\ frame.pc = "rounds"
  /\ frame.rounds > 0
  /\ LET sum == Add(frame.sum, delta)
     IN  frame' = [frame EXCEPT !.pc = "inner", !.rounds = @ - 1,
                                !.sum = sum, !.e = RoundE(sum), !.p = 0]
  /\ UNCHANGED <<mem, key, hasKey, calls>>

\* p < n, the inner loop running one word too far
InnerGoesOnToN(f) == f.p < f.n

\* p < n-1, the condition of the inner loop
InnerGoesOn(f) == f.p < f.n - 1

\* y = v[p+1]; v[p] += MX; z = v[p]; p++
StepInner ==
  /\ frame.pc = "inner"
  /\ InnerGoesOn(frame)
  /\ LET f == frame
         ki == KeyIdx(f.p, f.e)
     IN  frame' =
           IF ~(InV(f.p + 1) /\ InV(f.p) /\ InK(ki))
             THEN [f EXCEPT !.pc = "panicked"]
             ELSE LET y == f.v[f.p + 1]
                      vp == Add(f.v[f.p], MX(y, f.z, f.sum, f.k[ki]))
                  IN  [f EXCEPT !.y = y, !.v[f.p] = vp, !.z = vp,
                                !.p = @ + 1,
                                !.vidx = @ \cup {f.p + 1, f.p},
                                !.kidx = @ \cup {ki},
                                !.upd = Append(@, f.p)]
  /\ UNCHANGED <<mem, key, hasKey, calls>>

\* after the inner loop: y = v[0]; v[n-1] += MX; z = v[n-1] }
StepLast ==
  /\ frame.pc = "inner"
  /\ ~InnerGoesOn(frame)
  /\ LET f == frame
         ki == KeyIdx(f.p, f.e)
     IN  frame' =
           IF ~(InV(f.n - 1) /\ InK(ki))
             THEN [f EXCEPT !.pc = "panicked"]
             ELSE LET y == f.v[0]
                      vl == Add(f.v[f.n - 1], MX(y, f.z, f.sum, f.k[ki]))
                  IN  [f EXCEPT !.pc = "rounds", !.y = y, !.v[f.n - 1] = vl,
                                !.z = vl,
                                !.vidx = @ \cup {0, f.n - 1},
                                !.kidx = @ \cup {ki},
                                !.upd = Append(@, f.n - 1)]
  /\ UNCHANGED <<mem, key, hasKey, calls>>

\* rounds is 0: the store loop and `return out`
StepStore ==
  /\ frame.pc = "rounds"
  /\ frame.rounds = 0
  /\ LET f == frame
         lo == U32Len(mem[f.o])
         out == StoreLoop([out |-> mem[f.o].data, n |-> 0], f.v, lo)
         post == [mem EXCEPT ![f.o].data = out]
     IN  /\ frame' = [f EXCEPT !.pc = "done", !.vidx = @ \cup LoadIdx(lo)]
         /\ mem' = post
         /\ calls' = Append(calls, Call("Encrypt", f.i, f.o,
                                        [panicked |-> FALSE], post, ZeroKey))
  /\ UNCHANGED <<key, hasKey>>

StepNext ==
  \/ StepEnter
  \/ StepRound
  \/ StepInner
  \/ StepLast
  \/ StepStore

SpecSteps == StepInit /\ [][StepNext]_vars

----------------------------------------------------------------------------
(* C13: Encrypt follows the reference algorithm *)

\* the caller's memory when the running call was made
StepPre == IF calls = <<>> THEN mem ELSE calls[1].pre

\* N = L/4 for the block the running call was given
StepN == Len(StepPre[frame.i].data) \div 4

\* m updates made round by round, each round in the order 0, 1, ..., N-1
InOrder(m) == [j \in 1..m |-> (j - 1) % StepN]

\* the call runs on a block of valid length: between the length check and
\* the return
StepRunning == frame.pc \in {"rounds", "inner", "done"}

\* 6 + floor(52/N)
StepRounds == 6 + 52 \div StepN

\* rounds = 6 + floor(52/N), between 7 and 23; the rounds left and sum
\* account for each other, so that sum is rounds * DELTA mod 2^32 at the end
StepRoundCount ==
  /\ frame.n = StepN
  /\ StepRounds \in 7..23
  /\ frame.rounds \in 0..StepRounds
  /\ frame.sum = MulN(StepRounds - frame.rounds, delta)
  /\ frame.pc = "done" => frame.rounds = 0
  /\ frame.pc = "inner"
       => frame.rounds < StepRounds /\ frame.e = RoundE(frame.sum)

\* each round updates the words in the order 0, 1, ..., N-2 and then N-1, z
\* is the word updated just before, v[N-1] before the first update; the
\* call has made 6 + floor(52/N) such rounds when it returns, and no more
StepOrder ==
  /\ frame.upd = InOrder(Len(frame.upd))
  /\ frame.pc = "inner"
       => /\ frame.p \in 0..(StepN - 1)
          /\ Len(frame.upd)
               = (StepRounds - frame.rounds - 1) * StepN + frame.p
          /\ frame.z = frame.v[(frame.p + StepN - 1) % StepN]
  /\ frame.pc \in {"rounds", "done"}
       => /\ Len(frame.upd) = (StepRounds - frame.rounds) * StepN
          /\ frame.z = frame.v[StepN - 1]

\* indices into v stay in 0..N-1, indices into the key in 0..3
StepIndices ==
  /\ frame.vidx \subseteq 0..(StepN - 1)
  /\ frame.kidx \subseteq 0..3

\* the out slice is v serialized big-endian; it is what Encrypt computes in
\* one step, and the README's ciphertext for the README's message and key
StepOutput ==
  frame.pc = "done"
    => LET out == mem[frame.o].data
       IN  /\ Len(out) = 4 * StepN
           /\ \A j \in 0..(StepN - 1) :
                /\ out[4 * j + 1] = frame.v[j][1] \div 256
                /\ out[4 * j + 2] = frame.v[j][1] % 256
                /\ out[4 * j + 3] = frame.v[j][2] \div 256
                /\ out[4 * j + 4] = frame.v[j][2] % 256
           /\ out = Encrypt(key, StepPre, frame.i, frame.o).mem[frame.o].data
           /\ (StepPre[frame.i].data = plainM /\ key = NewKey(keyBEBE).k)
                => out = readmeEnc

\* the call panics only on the length check
StepPanics ==
  frame.pc = "panicked"
    => \/ ~ValidBlock(mem[frame.i])
       \/ ~SameLen(mem[frame.i], mem[frame.o])

StepInvariant ==
  /\ StepRunning => StepRoundCount /\ StepOrder /\ StepIndices
  /\ StepOutput
  /\ StepPanics

\* C13: Encrypt on a block of N words runs 6 + floor(52/N) rounds, between 7
\* and 23, and then returns; each round adds DELTA to sum, takes e from sum,
\* updates v[0..N-2] in increasing order and then v[N-1], z being the word
\* updated just before; the indices into v stay in 0..N-1 and those into the
\* key in 0..3; out is v serialized big-endian.
C13_ReferenceAlgorithm ==
  /\ frame.pc \in {"idle", "rounds", "inner", "done", "panicked"}
  /\ StepInvariant

\* the 52-word block encrypted in place: 7 rounds done, all four key words used
C13_Witness ==
  /\ frame.pc = "done"
  /\ frame.i = "msg" /\ frame.o = "msg"
  /\ StepN = 52
  /\ frame.sum = MulN(7, delta)
  /\ Len(frame.upd) = 7 * 52
  /\ frame.kidx = 0..3
  /\ mem["msg"].data # msgMax

====
